---- MODULE Spec2Model ----
(***************************************************************************)
(* Alternative-News-Source: the two front-end orchestrators of the         *)
(* analysis pipeline.                                                      *)
(*                                                                         *)
(*   src/app.py            Flask: analyze() handles one POST /analyze      *)
(*   src/streamlit_app.py  Streamlit: a script re-run on every user        *)
(*                         interaction, staged by st.session_state.stage   *)
(*                                                                         *)
(* Both call the four operations of the processor module                   *)
(* (fetch_article_text, analyze_sentiment_from_text,                       *)
(* analyze_topics_from_text, find_alternative_articles).  The processor    *)
(* module is not among the sources; its operations are modelled from their *)
(* contract in spec.md (sections 4.1 to 4.4) as the environment of the     *)
(* orchestrators.                                                          *)
(*                                                                         *)
(* A process p is one Flask request handler or one Streamlit session.      *)
(* Every call of a processor operation is one step, so that the steps of   *)
(* different processes interleave.  calls[p] is the history of the         *)
(* processor calls made by the current execution (one Flask request, one   *)
(* run of the Streamlit script).                                           *)
(***************************************************************************)
EXTENDS Integers, Sequences, FiniteSets, TLC

VARIABLES
    kind,        \* p -> "flask" | "streamlit" | "off"
    pc,          \* p -> the position of the handler / of the script run
    url,         \* p -> Flask: the local url (request.form['url'])
    title,       \* p -> the local title
    raw_text,    \* p -> the local raw_text
    sentiment,   \* p -> Flask: the local sentiment
    topics,      \* p -> Flask: the local topics
    articles,    \* p -> alternative_articles / alternatives: a list of dicts
    idx,         \* p -> the position of the for loop over articles (1-based)
    successful,  \* p -> successful_alternatives / processed_alternatives:
                 \*      the list of references (indices) into articles
    out,         \* p -> what the execution rendered
    ss,          \* p -> Streamlit: st.session_state, a dict
    clicked,     \* p -> Streamlit: the button whose click started this run
    calls,       \* p -> history of the processor calls of this execution
    nfetch,      \* p -> history: primary fetches since the URL was submitted
    failed       \* p -> history: a primary fetch failed since the submission

vars == <<kind, pc, url, title, raw_text, sentiment, topics, articles, idx,
          successful, out, ss, clicked, calls, nfetch, failed>>

----------------------------------------------------------------------------
(* Bounds of the model *)

\* The longest Candidate list find_alternative_articles returns.
MaxCands == 3

\* The longest Candidate list when two requests are in flight.
ConcMaxCands == 2

Procs == {1, 2}

\* The URLs a user submits, and the URLs of the articles the search finds.
Urls == {"u1", "u2"}
CandUrls == {"c1", "c2", "c3"}

\* The non-empty article bodies: a whitespace-only one and two ordinary ones.
Texts == {" ", "a", "b"}

----------------------------------------------------------------------------
(* Python values *)

None == "None"

\* The local sentiment before its assignment.
NoSentiment == <<>>

\* bool(s) of a str: `if not raw_text` is `~Truthy(raw_text)`.
Truthy(s) == s # ""

\* bool(l) of a list: `if alternative_articles:`.
TruthyList(l) == Len(l) > 0

\* d[k] = v on a dict.
Put(d, k, v) == [x \in (DOMAIN d) \cup {k} |-> IF x = k THEN v ELSE d[x]]

\* del d[k] for every k of ks that is in d.
Del(d, ks) == [x \in (DOMAIN d) \ ks |-> d[x]]

EmptyDict == [x \in {} |-> None]

----------------------------------------------------------------------------
(* The processor module, from its contract *)

PageTitle(u) ==
    CASE u = "u1" -> "Title u1"
      [] u = "u2" -> "Title u2"
      [] u = "c1" -> "Title c1"
      [] u = "c2" -> "Title c2"
      [] u = "c3" -> "Title c3"
      [] OTHER    -> ""

\* fetch_article_text(u): what one fetch can come to.  ok is whether the
\* fetch itself succeeded; the caller is handed only (title, text).  A failed
\* fetch hands back an empty text, with or without a title; a fetch that
\* succeeded hands back the page's body, which may be empty.
FetchOutcomes(u) ==
    {[ok |-> FALSE, title |-> "", text |-> ""],
     [ok |-> FALSE, title |-> PageTitle(u), text |-> ""],
     [ok |-> TRUE, title |-> PageTitle(u), text |-> ""]}
    \cup {[ok |-> TRUE, title |-> PageTitle(u), text |-> t] : t \in Texts}

\* analyze_sentiment_from_text(text): deterministic in the text.
Score(text) == <<"sentiment of", text>>

\* analyze_topics_from_text(text): deterministic in the text; an empty list
\* for a degenerate (whitespace-only) text.
ExtractTopics(text) ==
    CASE text = "a" -> <<"topic a">>
      [] text = "b" -> <<"topic b1", "topic b2">>
      [] OTHER      -> <<>>

\* The Candidate of a search result: a dict without a sentiment.
Candidate(c) ==
    [url |-> c, title |-> PageTitle(c), source |-> "source", publishedAt |-> "date"]

RECURSIVE DistinctSeqs(_, _)
\* The sequences of at most n distinct elements of S.
DistinctSeqs(S, n) ==
    IF n = 0 THEN {<<>>}
    ELSE {<<>>} \cup
         UNION {{<<x>> \o s : s \in DistinctSeqs(S \ {x}, n - 1)} : x \in S}

\* find_alternative_articles(topics, raw_text): a bounded list of Candidates,
\* no two with the same URL, in relevance order; empty when there is no topic
\* to search for or the search finds nothing.
FindOutcomes(tps, text) ==
    IF tps = <<>> THEN {<<>>}
    ELSE {[i \in 1..Len(s) |-> Candidate(s[i])] : s \in DistinctSeqs(CandUrls, MaxCands)}

\* One entry of calls[p].
Call(op, a1, a2, res) == [op |-> op, a1 |-> a1, a2 |-> a2, res |-> res]

\* In place of a result, in calls[p]: the fetch raised, the scoring raised.
Raised == [ok |-> FALSE, title |-> "", text |-> "raised"]

RaisedScore == <<"raised">>

----------------------------------------------------------------------------
(* Initial state *)

NoPage == [page |-> "none"]

\* Every process before its first request / first script run.  A Streamlit
\* session starts with the stage key alone, set to 'input'.
InitOf(k) ==
    /\ kind = k
    /\ pc = [p \in Procs |-> IF k[p] = "off" THEN "off" ELSE "idle"]
    /\ url = [p \in Procs |-> ""]
    /\ title = [p \in Procs |-> None]
    /\ raw_text = [p \in Procs |-> None]
    /\ sentiment = [p \in Procs |-> NoSentiment]
    /\ topics = [p \in Procs |-> <<>>]
    /\ articles = [p \in Procs |-> <<>>]
    /\ idx = [p \in Procs |-> 0]
    /\ successful = [p \in Procs |-> <<>>]
    /\ out = [p \in Procs |-> IF k[p] = "streamlit" THEN [page |-> "input"] ELSE NoPage]
    /\ ss = [p \in Procs |-> IF k[p] = "streamlit" THEN [stage |-> "input"] ELSE EmptyDict]
    /\ clicked = [p \in Procs |-> "none"]
    /\ calls = [p \in Procs |-> <<>>]
    /\ nfetch = [p \in Procs |-> 0]
    /\ failed = [p \in Procs |-> FALSE]

\* One front-end at a time: process 1 is a Flask request handler or a
\* Streamlit session.
Init == \E k \in {"flask", "streamlit"} : InitOf([p \in Procs |-> IF p = 1 THEN k ELSE "off"])

----------------------------------------------------------------------------
(* src/app.py: analyze() *)

\* The alternatives handed to the template: the dicts successful_alternatives
\* refers to, as they are when the page is rendered.
Resolve(arts, refs) == [i \in 1..Len(refs) |-> arts[refs[i]]]

\* POST /analyze arrives: url = request.form['url'].
Flask_Request(p) ==
    /\ kind[p] = "flask"
    /\ pc[p] \in {"idle", "done"}
    /\ \E u \in Urls : url' = [url EXCEPT ![p] = u]
    /\ pc' = [pc EXCEPT ![p] = "fetch"]
    /\ title' = [title EXCEPT ![p] = None]
    /\ raw_text' = [raw_text EXCEPT ![p] = None]
    /\ sentiment' = [sentiment EXCEPT ![p] = NoSentiment]
    /\ topics' = [topics EXCEPT ![p] = <<>>]
    /\ articles' = [articles EXCEPT ![p] = <<>>]
    /\ idx' = [idx EXCEPT ![p] = 0]
    /\ successful' = [successful EXCEPT ![p] = <<>>]
    /\ out' = [out EXCEPT ![p] = NoPage]
    /\ calls' = [calls EXCEPT ![p] = <<>>]
    /\ nfetch' = [nfetch EXCEPT ![p] = 0]
    /\ failed' = [failed EXCEPT ![p] = FALSE]
    /\ UNCHANGED <<kind, ss, clicked>>

\* 1. title, raw_text = fetch_article_text(url); if not raw_text: error.html.
Flask_FetchPrimary(p) ==
    /\ kind[p] = "flask"
    /\ pc[p] = "fetch"
    /\ \E o \in FetchOutcomes(url[p]) :
         /\ title' = [title EXCEPT ![p] = o.title]
         /\ raw_text' = [raw_text EXCEPT ![p] = o.text]
         /\ calls' = [calls EXCEPT ![p] = Append(@, Call("fetch", url[p], <<>>, o))]
         /\ nfetch' = [nfetch EXCEPT ![p] = @ + 1]
         /\ IF ~Truthy(o.text)
            THEN /\ out' = [out EXCEPT ![p] = [page |-> "error.html"]]
                 /\ pc' = [pc EXCEPT ![p] = "done"]
                 /\ failed' = [failed EXCEPT ![p] = TRUE]
            ELSE /\ pc' = [pc EXCEPT ![p] = "sentiment"]
                 /\ UNCHANGED <<out, failed>>
    /\ UNCHANGED <<kind, url, sentiment, topics, articles, idx, successful, ss, clicked>>

\* 2. sentiment = analyze_sentiment_from_text(raw_text)
Flask_Sentiment(p) ==
    /\ kind[p] = "flask"
    /\ pc[p] = "sentiment"
    /\ sentiment' = [sentiment EXCEPT ![p] = Score(raw_text[p])]
    /\ calls' = [calls EXCEPT ![p] =
                   Append(@, Call("sentiment", raw_text[p], <<>>, Score(raw_text[p])))]
    /\ pc' = [pc EXCEPT ![p] = "topics"]
    /\ UNCHANGED <<kind, url, title, raw_text, topics, articles, idx, successful,
                   out, ss, clicked, nfetch, failed>>

\* 2. topics = analyze_topics_from_text(raw_text)
Flask_Topics(p) ==
    /\ kind[p] = "flask"
    /\ pc[p] = "topics"
    /\ topics' = [topics EXCEPT ![p] = ExtractTopics(raw_text[p])]
    /\ calls' = [calls EXCEPT ![p] =
                   Append(@, Call("topics", raw_text[p], <<>>, ExtractTopics(raw_text[p])))]
    /\ pc' = [pc EXCEPT ![p] = "find"]
    /\ UNCHANGED <<kind, url, title, raw_text, sentiment, articles, idx, successful,
                   out, ss, clicked, nfetch, failed>>

\* Flask_FindAlternatives calling find_alternative_articles(topics), without
\* the raw_text.
Flask_FindAlternatives_TopicsOnly(p) ==
    /\ kind[p] = "flask"
    /\ pc[p] = "find"
    /\ \E found \in FindOutcomes(topics[p], raw_text[p]) :
         /\ articles' = [articles EXCEPT ![p] = found]
         /\ calls' = [calls EXCEPT ![p] = Append(@, Call("find", None, topics[p], found))]
         /\ pc' = [pc EXCEPT ![p] = IF TruthyList(found) THEN "loop" ELSE "render"]
    /\ successful' = [successful EXCEPT ![p] = <<>>]
    /\ idx' = [idx EXCEPT ![p] = 1]
    /\ UNCHANGED <<kind, url, title, raw_text, sentiment, topics, out, ss, clicked,
                   nfetch, failed>>

\* 3. alternative_articles = find_alternative_articles(topics, raw_text);
\* 4. successful_alternatives = []; if alternative_articles: for ...
Flask_FindAlternatives(p) ==
    /\ kind[p] = "flask"
    /\ pc[p] = "find"
    /\ \E found \in FindOutcomes(topics[p], raw_text[p]) :
         /\ articles' = [articles EXCEPT ![p] = found]
         /\ calls' = [calls EXCEPT ![p] =
                        Append(@, Call("find", raw_text[p], topics[p], found))]
         /\ pc' = [pc EXCEPT ![p] = IF TruthyList(found) THEN "loop" ELSE "render"]
    /\ successful' = [successful EXCEPT ![p] = <<>>]
    /\ idx' = [idx EXCEPT ![p] = 1]
    /\ UNCHANGED <<kind, url, title, raw_text, sentiment, topics, out, ss, clicked,
                   nfetch, failed>>

\* Flask_AltStep with successful_alternatives.insert(0, article).
Flask_AltStep_Prepend(p) ==
    /\ kind[p] = "flask"
    /\ pc[p] = "loop"
    /\ \E o \in FetchOutcomes(articles[p][idx[p]]["url"]) :
         LET fetched == Call("fetch", articles[p][idx[p]]["url"], <<>>, o) IN
         IF Truthy(o.text)
         THEN /\ articles' = [articles EXCEPT ![p][idx[p]] =
                                Put(@, "sentiment", Score(o.text))]
              /\ successful' = [successful EXCEPT ![p] = <<idx[p]>> \o @]
              /\ calls' = [calls EXCEPT ![p] =
                             @ \o <<fetched, Call("sentiment", o.text, <<>>, Score(o.text))>>]
         ELSE /\ calls' = [calls EXCEPT ![p] = Append(@, fetched)]
              /\ UNCHANGED <<articles, successful>>
    /\ idx' = [idx EXCEPT ![p] = @ + 1]
    /\ pc' = [pc EXCEPT ![p] = IF idx[p] + 1 > Len(articles[p]) THEN "render" ELSE "loop"]
    /\ UNCHANGED <<kind, url, title, raw_text, sentiment, topics, out, ss, clicked,
                   nfetch, failed>>

\* Flask_AltStep with a `break` in the else branch: the first failed fetch
\* ends the loop.
Flask_AltStep_BreakOnFailure(p) ==
    /\ kind[p] = "flask"
    /\ pc[p] = "loop"
    /\ \E o \in FetchOutcomes(articles[p][idx[p]]["url"]) :
         LET fetched == Call("fetch", articles[p][idx[p]]["url"], <<>>, o) IN
         IF Truthy(o.text)
         THEN /\ articles' = [articles EXCEPT ![p][idx[p]] =
                                Put(@, "sentiment", Score(o.text))]
              /\ successful' = [successful EXCEPT ![p] = Append(@, idx[p])]
              /\ calls' = [calls EXCEPT ![p] =
                             @ \o <<fetched, Call("sentiment", o.text, <<>>, Score(o.text))>>]
              /\ pc' = [pc EXCEPT ![p] =
                          IF idx[p] + 1 > Len(articles[p]) THEN "render" ELSE "loop"]
         ELSE /\ calls' = [calls EXCEPT ![p] = Append(@, fetched)]
              /\ pc' = [pc EXCEPT ![p] = "render"]
              /\ UNCHANGED <<articles, successful>>
    /\ idx' = [idx EXCEPT ![p] = @ + 1]
    /\ UNCHANGED <<kind, url, title, raw_text, sentiment, topics, out, ss, clicked,
                   nfetch, failed>>

\* Flask_AltStep without `if alt_raw_text:`: every fetched text is scored.
Flask_AltStep_NoGuard(p) ==
    /\ kind[p] = "flask"
    /\ pc[p] = "loop"
    /\ \E o \in FetchOutcomes(articles[p][idx[p]]["url"]) :
         LET fetched == Call("fetch", articles[p][idx[p]]["url"], <<>>, o) IN
         /\ articles' = [articles EXCEPT ![p][idx[p]] = Put(@, "sentiment", Score(o.text))]
         /\ successful' = [successful EXCEPT ![p] = Append(@, idx[p])]
         /\ calls' = [calls EXCEPT ![p] =
                        @ \o <<fetched, Call("sentiment", o.text, <<>>, Score(o.text))>>]
    /\ idx' = [idx EXCEPT ![p] = @ + 1]
    /\ pc' = [pc EXCEPT ![p] = IF idx[p] + 1 > Len(articles[p]) THEN "render" ELSE "loop"]
    /\ UNCHANGED <<kind, url, title, raw_text, sentiment, topics, out, ss, clicked,
                   nfetch, failed>>

\* One iteration of `for article in alternative_articles`: fetch the article;
\* if alt_raw_text: set article['sentiment'] and append the article.
Flask_AltStep(p) ==
    /\ kind[p] = "flask"
    /\ pc[p] = "loop"
    /\ \E o \in FetchOutcomes(articles[p][idx[p]]["url"]) :
         LET fetched == Call("fetch", articles[p][idx[p]]["url"], <<>>, o) IN
         IF Truthy(o.text)
         THEN /\ articles' = [articles EXCEPT ![p][idx[p]] =
                                Put(@, "sentiment", Score(o.text))]
              /\ successful' = [successful EXCEPT ![p] = Append(@, idx[p])]
              /\ calls' = [calls EXCEPT ![p] =
                             @ \o <<fetched, Call("sentiment", o.text, <<>>, Score(o.text))>>]
         ELSE /\ calls' = [calls EXCEPT ![p] = Append(@, fetched)]
              /\ UNCHANGED <<articles, successful>>
    /\ idx' = [idx EXCEPT ![p] = @ + 1]
    /\ pc' = [pc EXCEPT ![p] = IF idx[p] + 1 > Len(articles[p]) THEN "render" ELSE "loop"]
    /\ UNCHANGED <<kind, url, title, raw_text, sentiment, topics, out, ss, clicked,
                   nfetch, failed>>

\* Flask_Render taking an empty successful_alternatives for an error.
Flask_Render_ErrorOnEmpty(p) ==
    /\ kind[p] = "flask"
    /\ pc[p] = "render"
    /\ out' = [out EXCEPT ![p] =
                 IF successful[p] = <<>> THEN [page |-> "error.html"]
                 ELSE [page |-> "results.html",
                       article_title |-> title[p],
                       sentiment |-> sentiment[p],
                       topics |-> topics[p],
                       alternative_articles |-> Resolve(articles[p], successful[p])]]
    /\ pc' = [pc EXCEPT ![p] = "done"]
    /\ UNCHANGED <<kind, url, title, raw_text, sentiment, topics, articles, idx,
                   successful, ss, clicked, calls, nfetch, failed>>

\* Flask_Render with sentiment kept in a module-level global that every
\* request assigns: the page shows the sentiment another request in flight
\* assigned last.
Flask_Render_GlobalSentiment(p) ==
    /\ kind[p] = "flask"
    /\ pc[p] = "render"
    /\ LET others == {q \in Procs \ {p} : kind[q] = "flask" /\ sentiment[q] # NoSentiment}
           shown == IF others = {} THEN sentiment[p]
                    ELSE sentiment[CHOOSE q \in others : TRUE]
       IN out' = [out EXCEPT ![p] =
                    [page |-> "results.html",
                     article_title |-> title[p],
                     sentiment |-> shown,
                     topics |-> topics[p],
                     alternative_articles |-> Resolve(articles[p], successful[p])]]
    /\ pc' = [pc EXCEPT ![p] = "done"]
    /\ UNCHANGED <<kind, url, title, raw_text, sentiment, topics, articles, idx,
                   successful, ss, clicked, calls, nfetch, failed>>

\* 5. return render_template('results.html', ...)
Flask_Render(p) ==
    /\ kind[p] = "flask"
    /\ pc[p] = "render"
    /\ out' = [out EXCEPT ![p] =
                 [page |-> "results.html",
                  article_title |-> title[p],
                  sentiment |-> sentiment[p],
                  topics |-> topics[p],
                  alternative_articles |-> Resolve(articles[p], successful[p])]]
    /\ pc' = [pc EXCEPT ![p] = "done"]
    /\ UNCHANGED <<kind, url, title, raw_text, sentiment, topics, articles, idx,
                   successful, ss, clicked, calls, nfetch, failed>>

Flask(p) ==
    \/ Flask_Request(p)
    \/ Flask_FetchPrimary(p)
    \/ Flask_Sentiment(p)
    \/ Flask_Topics(p)
    \/ Flask_FindAlternatives(p)
    \/ Flask_AltStep(p)
    \/ Flask_Render(p)

----------------------------------------------------------------------------
(* src/streamlit_app.py: the staged script *)

\* alt_raw_text[:250] + "..." (every body of the model is shorter than 250).
Description(text) == <<text, "...">>

\* keys_to_clear without 'alternatives'.
keys_to_clear_NoAlternatives == {"url", "original_article", "topics", "error"}

keys_to_clear == {"url", "original_article", "topics", "alternatives", "error"}

\* start_new_analysis() on the session state d, up to its st.rerun().
start_new_analysis(d) == Del(Put(d, "stage", "input"), keys_to_clear)

\* The results screen: what the 'results' stage reads from the session state.
ResultsPage(d) ==
    [page |-> "results",
     article_title |-> d["original_article"]["title"],
     sentiment |-> d["original_article"]["sentiment"],
     topics |-> d["topics"],
     alternative_articles |-> d["alternatives"]]

\* The locals of a script run that has not assigned them.
St_NoLocals(p) ==
    /\ title' = [title EXCEPT ![p] = None]
    /\ raw_text' = [raw_text EXCEPT ![p] = None]
    /\ articles' = [articles EXCEPT ![p] = <<>>]
    /\ idx' = [idx EXCEPT ![p] = 0]
    /\ successful' = [successful EXCEPT ![p] = <<>>]

\* St_ClickAnalyze without `if url_input:`: any input is stored and analyzed.
St_ClickAnalyze_NoCheck(p) ==
    /\ kind[p] = "streamlit"
    /\ pc[p] = "idle"
    /\ ss[p]["stage"] = "input"
    /\ \E url_input \in Urls \cup {""} :
         /\ ss' = [ss EXCEPT ![p] = Put(Put(@, "url", url_input), "stage", "processing")]
         /\ pc' = [pc EXCEPT ![p] = "fetch"]
         /\ out' = [out EXCEPT ![p] = [page |-> "processing"]]
    /\ St_NoLocals(p)
    /\ clicked' = [clicked EXCEPT ![p] = "none"]
    /\ calls' = [calls EXCEPT ![p] = <<>>]
    /\ nfetch' = [nfetch EXCEPT ![p] = 0]
    /\ failed' = [failed EXCEPT ![p] = FALSE]
    /\ UNCHANGED <<kind, url, sentiment, topics>>

\* Stage 'input': the user presses 'Analyze Article' with url_input in the
\* text box.  A non-empty URL is stored and the script reruns in stage
\* 'processing'; an empty one only shows the warning.
St_ClickAnalyze(p) ==
    /\ kind[p] = "streamlit"
    /\ pc[p] = "idle"
    /\ ss[p]["stage"] = "input"
    /\ \E url_input \in Urls \cup {""} :
         IF Truthy(url_input)
         THEN /\ ss' = [ss EXCEPT ![p] = Put(Put(@, "url", url_input), "stage", "processing")]
              /\ pc' = [pc EXCEPT ![p] = "fetch"]
              /\ out' = [out EXCEPT ![p] = [page |-> "processing"]]
         ELSE /\ out' = [out EXCEPT ![p] = [page |-> "input_warning"]]
              /\ UNCHANGED <<ss, pc>>
    /\ St_NoLocals(p)
    /\ clicked' = [clicked EXCEPT ![p] = "none"]
    /\ calls' = [calls EXCEPT ![p] = <<>>]
    /\ nfetch' = [nfetch EXCEPT ![p] = 0]
    /\ failed' = [failed EXCEPT ![p] = FALSE]
    /\ UNCHANGED <<kind, url, sentiment, topics>>

\* St_FetchPrimary without the st.stop(): after the error the script goes on.
St_FetchPrimary_NoStop(p) ==
    /\ kind[p] = "streamlit"
    /\ pc[p] = "fetch"
    /\ \E o \in FetchOutcomes(ss[p]["url"]) :
         /\ title' = [title EXCEPT ![p] = o.title]
         /\ raw_text' = [raw_text EXCEPT ![p] = o.text]
         /\ calls' = [calls EXCEPT ![p] = Append(@, Call("fetch", ss[p]["url"], <<>>, o))]
         /\ nfetch' = [nfetch EXCEPT ![p] = @ + 1]
         /\ IF ~Truthy(o.text)
            THEN /\ failed' = [failed EXCEPT ![p] = TRUE]
                 /\ IF clicked[p] = "try_another"
                    THEN /\ ss' = [ss EXCEPT ![p] = start_new_analysis(@)]
                         /\ out' = [out EXCEPT ![p] = [page |-> "input"]]
                         /\ pc' = [pc EXCEPT ![p] = "idle"]
                    ELSE /\ out' = [out EXCEPT ![p] = [page |-> "fetch_error"]]
                         /\ pc' = [pc EXCEPT ![p] = "sentiment"]
                         /\ UNCHANGED ss
            ELSE /\ pc' = [pc EXCEPT ![p] = "sentiment"]
                 /\ UNCHANGED <<out, failed, ss>>
    /\ clicked' = [clicked EXCEPT ![p] = "none"]
    /\ UNCHANGED <<kind, url, sentiment, topics, articles, idx, successful>>

\* Step 1: title, raw_text = fetch_article_text(st.session_state.url).
\* if not raw_text: st.error; the button 'Try Another Article' is rendered,
\* and is True in the run its click started: start_new_analysis(); otherwise
\* st.stop().
St_FetchPrimary(p) ==
    /\ kind[p] = "streamlit"
    /\ pc[p] = "fetch"
    /\ \E o \in FetchOutcomes(ss[p]["url"]) :
         /\ title' = [title EXCEPT ![p] = o.title]
         /\ raw_text' = [raw_text EXCEPT ![p] = o.text]
         /\ calls' = [calls EXCEPT ![p] = Append(@, Call("fetch", ss[p]["url"], <<>>, o))]
         /\ nfetch' = [nfetch EXCEPT ![p] = @ + 1]
         /\ IF ~Truthy(o.text)
            THEN /\ failed' = [failed EXCEPT ![p] = TRUE]
                 /\ pc' = [pc EXCEPT ![p] = "idle"]
                 /\ IF clicked[p] = "try_another"
                    THEN /\ ss' = [ss EXCEPT ![p] = start_new_analysis(@)]
                         /\ out' = [out EXCEPT ![p] = [page |-> "input"]]
                    ELSE /\ out' = [out EXCEPT ![p] = [page |-> "fetch_error"]]
                         /\ UNCHANGED ss
            ELSE /\ pc' = [pc EXCEPT ![p] = "sentiment"]
                 /\ UNCHANGED <<out, failed, ss>>
    /\ clicked' = [clicked EXCEPT ![p] = "none"]
    /\ UNCHANGED <<kind, url, sentiment, topics, articles, idx, successful>>

\* The fetch error is shown: the user presses 'Try Another Article'.  The
\* click reruns the script, whose stage is still 'processing'.
St_ClickTryAnother(p) ==
    /\ kind[p] = "streamlit"
    /\ pc[p] = "idle"
    /\ out[p]["page"] = "fetch_error"
    /\ clicked' = [clicked EXCEPT ![p] = "try_another"]
    /\ pc' = [pc EXCEPT ![p] = "fetch"]
    /\ out' = [out EXCEPT ![p] = [page |-> "processing"]]
    /\ St_NoLocals(p)
    /\ calls' = [calls EXCEPT ![p] = <<>>]
    /\ UNCHANGED <<kind, url, sentiment, topics, ss, nfetch, failed>>

\* Step 2: st.session_state.original_article = {'title': title,
\* 'sentiment': analyze_sentiment_from_text(raw_text)}
St_Sentiment(p) ==
    /\ kind[p] = "streamlit"
    /\ pc[p] = "sentiment"
    /\ ss' = [ss EXCEPT ![p] = Put(@, "original_article",
                                  [title |-> title[p], sentiment |-> Score(raw_text[p])])]
    /\ calls' = [calls EXCEPT ![p] =
                   Append(@, Call("sentiment", raw_text[p], <<>>, Score(raw_text[p])))]
    /\ pc' = [pc EXCEPT ![p] = "topics"]
    /\ UNCHANGED <<kind, url, title, raw_text, sentiment, topics, articles, idx,
                   successful, out, clicked, nfetch, failed>>

\* Step 2: st.session_state.topics = analyze_topics_from_text(raw_text)
St_Topics(p) ==
    /\ kind[p] = "streamlit"
    /\ pc[p] = "topics"
    /\ ss' = [ss EXCEPT ![p] = Put(@, "topics", ExtractTopics(raw_text[p]))]
    /\ calls' = [calls EXCEPT ![p] =
                   Append(@, Call("topics", raw_text[p], <<>>, ExtractTopics(raw_text[p])))]
    /\ pc' = [pc EXCEPT ![p] = "find"]
    /\ UNCHANGED <<kind, url, title, raw_text, sentiment, topics, articles, idx,
                   successful, out, clicked, nfetch, failed>>

\* Step 3: alternatives = find_alternative_articles(st.session_state.topics,
\* raw_text); step 4: processed_alternatives = []; if alternatives: for ...
St_FindAlternatives(p) ==
    /\ kind[p] = "streamlit"
    /\ pc[p] = "find"
    /\ \E found \in FindOutcomes(ss[p]["topics"], raw_text[p]) :
         /\ articles' = [articles EXCEPT ![p] = found]
         /\ calls' = [calls EXCEPT ![p] =
                        Append(@, Call("find", raw_text[p], ss[p]["topics"], found))]
         /\ pc' = [pc EXCEPT ![p] = IF TruthyList(found) THEN "loop" ELSE "finish"]
    /\ successful' = [successful EXCEPT ![p] = <<>>]
    /\ idx' = [idx EXCEPT ![p] = 1]
    /\ UNCHANGED <<kind, url, title, raw_text, sentiment, topics, out, ss, clicked,
                   nfetch, failed>>

\* St_AltStep scoring raw_text, the primary article's text, in place of
\* alt_raw_text.
St_AltStep_ScoresPrimary(p) ==
    /\ kind[p] = "streamlit"
    /\ pc[p] = "loop"
    /\ \E o \in FetchOutcomes(articles[p][idx[p]]["url"]) :
         LET fetched == Call("fetch", articles[p][idx[p]]["url"], <<>>, o) IN
         IF Truthy(o.text)
         THEN /\ articles' = [articles EXCEPT ![p][idx[p]] =
                                Put(Put(@, "sentiment", Score(raw_text[p])),
                                    "description", Description(o.text))]
              /\ successful' = [successful EXCEPT ![p] = Append(@, idx[p])]
              /\ calls' = [calls EXCEPT ![p] =
                             @ \o <<fetched,
                                    Call("sentiment", raw_text[p], <<>>, Score(raw_text[p]))>>]
         ELSE /\ calls' = [calls EXCEPT ![p] = Append(@, fetched)]
              /\ UNCHANGED <<articles, successful>>
    /\ idx' = [idx EXCEPT ![p] = @ + 1]
    /\ pc' = [pc EXCEPT ![p] = IF idx[p] + 1 > Len(articles[p]) THEN "finish" ELSE "loop"]
    /\ UNCHANGED <<kind, url, title, raw_text, sentiment, topics, out, ss, clicked,
                   nfetch, failed>>

\* St_AltStep with processed_alternatives.insert(0, article).
St_AltStep_Prepend(p) ==
    /\ kind[p] = "streamlit"
    /\ pc[p] = "loop"
    /\ \E o \in FetchOutcomes(articles[p][idx[p]]["url"]) :
         LET fetched == Call("fetch", articles[p][idx[p]]["url"], <<>>, o) IN
         IF Truthy(o.text)
         THEN /\ articles' = [articles EXCEPT ![p][idx[p]] =
                                Put(Put(@, "sentiment", Score(o.text)),
                                    "description", Description(o.text))]
              /\ successful' = [successful EXCEPT ![p] = <<idx[p]>> \o @]
              /\ calls' = [calls EXCEPT ![p] =
                             @ \o <<fetched, Call("sentiment", o.text, <<>>, Score(o.text))>>]
         ELSE /\ calls' = [calls EXCEPT ![p] = Append(@, fetched)]
              /\ UNCHANGED <<articles, successful>>
    /\ idx' = [idx EXCEPT ![p] = @ + 1]
    /\ pc' = [pc EXCEPT ![p] = IF idx[p] + 1 > Len(articles[p]) THEN "finish" ELSE "loop"]
    /\ UNCHANGED <<kind, url, title, raw_text, sentiment, topics, out, ss, clicked,
                   nfetch, failed>>

\* One iteration of `for i, article in enumerate(alternatives)`: fetch the
\* article; if alt_raw_text: set article['sentiment'] and
\* article['description'] and append the article.
St_AltStep(p) ==
    /\ kind[p] = "streamlit"
    /\ pc[p] = "loop"
    /\ \E o \in FetchOutcomes(articles[p][idx[p]]["url"]) :
         LET fetched == Call("fetch", articles[p][idx[p]]["url"], <<>>, o) IN
         IF Truthy(o.text)
         THEN /\ articles' = [articles EXCEPT ![p][idx[p]] =
                                Put(Put(@, "sentiment", Score(o.text)),
                                    "description", Description(o.text))]
              /\ successful' = [successful EXCEPT ![p] = Append(@, idx[p])]
              /\ calls' = [calls EXCEPT ![p] =
                             @ \o <<fetched, Call("sentiment", o.text, <<>>, Score(o.text))>>]
         ELSE /\ calls' = [calls EXCEPT ![p] = Append(@, fetched)]
              /\ UNCHANGED <<articles, successful>>
    /\ idx' = [idx EXCEPT ![p] = @ + 1]
    /\ pc' = [pc EXCEPT ![p] = IF idx[p] + 1 > Len(articles[p]) THEN "finish" ELSE "loop"]
    /\ UNCHANGED <<kind, url, title, raw_text, sentiment, topics, out, ss, clicked,
                   nfetch, failed>>

\* St_Finish storing the alternatives only when there are some:
\* `if processed_alternatives: st.session_state.alternatives = ...`.  The
\* results screen then reads a key that is missing, which raises.
St_Finish_SkipsEmpty(p) ==
    /\ kind[p] = "streamlit"
    /\ pc[p] = "finish"
    /\ LET kept == IF successful[p] = <<>> THEN ss[p]
                   ELSE Put(ss[p], "alternatives", Resolve(articles[p], successful[p]))
           d == Put(kept, "stage", "results")
       IN /\ ss' = [ss EXCEPT ![p] = d]
          /\ out' = [out EXCEPT ![p] = IF "alternatives" \in DOMAIN d
                                       THEN ResultsPage(d)
                                       ELSE [page |-> "exception"]]
    /\ pc' = [pc EXCEPT ![p] = "idle"]
    /\ UNCHANGED <<kind, url, title, raw_text, sentiment, topics, articles, idx,
                   successful, clicked, calls, nfetch, failed>>

\* st.session_state.alternatives = processed_alternatives;
\* st.session_state.stage = 'results'; st.rerun(): the script reruns in stage
\* 'results' and shows the results screen.
St_Finish(p) ==
    /\ kind[p] = "streamlit"
    /\ pc[p] = "finish"
    /\ LET d == Put(Put(ss[p], "alternatives", Resolve(articles[p], successful[p])),
                    "stage", "results")
       IN /\ ss' = [ss EXCEPT ![p] = d]
          /\ out' = [out EXCEPT ![p] = ResultsPage(d)]
    /\ pc' = [pc EXCEPT ![p] = "idle"]
    /\ UNCHANGED <<kind, url, title, raw_text, sentiment, topics, articles, idx,
                   successful, clicked, calls, nfetch, failed>>

\* Stage 'results': the user presses 'Analyze Another Article'; the rerun
\* renders the results screen again and the button calls
\* start_new_analysis().
St_ClickAnalyzeAnother(p) ==
    /\ kind[p] = "streamlit"
    /\ pc[p] = "idle"
    /\ ss[p]["stage"] = "results"
    /\ ResultsPage(ss[p])["page"] = "results"
    /\ ss' = [ss EXCEPT ![p] = start_new_analysis(@)]
    /\ out' = [out EXCEPT ![p] = [page |-> "input"]]
    /\ St_NoLocals(p)
    /\ calls' = [calls EXCEPT ![p] = <<>>]
    /\ UNCHANGED <<kind, pc, url, sentiment, topics, clicked, nfetch, failed>>

Streamlit(p) ==
    \/ St_ClickAnalyze(p)
    \/ St_FetchPrimary(p)
    \/ St_ClickTryAnother(p)
    \/ St_Sentiment(p)
    \/ St_Topics(p)
    \/ St_FindAlternatives(p)
    \/ St_AltStep(p)
    \/ St_Finish(p)
    \/ St_ClickAnalyzeAnother(p)

----------------------------------------------------------------------------
(* A processor operation that raises inside the loop over the alternatives *)

\* What the loop iteration at idx[p] adds to calls[p] when it raises: the
\* fetch raised, or the fetch returned a text and the scoring of it raised.
RaisingCalls(p) ==
    LET u == articles[p][idx[p]]["url"] IN
    {<<Call("fetch", u, <<>>, Raised)>>}
    \cup {<<Call("fetch", u, <<>>, o), Call("sentiment", o.text, <<>>, RaisedScore)>> :
            o \in {x \in FetchOutcomes(u) : Truthy(x.text)}}

\* analyze() has no try/except: the exception leaves the view function and
\* Flask answers with its error response.
Flask_AltRaise(p) ==
    /\ kind[p] = "flask"
    /\ pc[p] = "loop"
    /\ \E cs \in RaisingCalls(p) : calls' = [calls EXCEPT ![p] = @ \o cs]
    /\ out' = [out EXCEPT ![p] = [page |-> "exception"]]
    /\ pc' = [pc EXCEPT ![p] = "done"]
    /\ UNCHANGED <<kind, url, title, raw_text, sentiment, topics, articles, idx,
                   successful, ss, clicked, nfetch, failed>>

\* The script has no try/except: the run ends with the exception shown, the
\* stage still 'processing' and no widget rendered.
St_AltRaise(p) ==
    /\ kind[p] = "streamlit"
    /\ pc[p] = "loop"
    /\ \E cs \in RaisingCalls(p) : calls' = [calls EXCEPT ![p] = @ \o cs]
    /\ out' = [out EXCEPT ![p] = [page |-> "exception"]]
    /\ pc' = [pc EXCEPT ![p] = "idle"]
    /\ UNCHANGED <<kind, url, title, raw_text, sentiment, topics, articles, idx,
                   successful, ss, clicked, nfetch, failed>>

----------------------------------------------------------------------------
(* Specifications *)

\* The processor keeps its contract: no operation raises.
Next == \E p \in Procs : Flask(p) \/ Streamlit(p)

Spec == Init /\ [][Next]_vars

\* A fetch or a scoring of an alternative may raise.
NextRaise == \E p \in Procs : Flask(p) \/ Streamlit(p) \/ Flask_AltRaise(p) \/ St_AltRaise(p)

SpecRaise == Init /\ [][NextRaise]_vars

\* Two Flask requests in flight at once (the server handles each request in
\* a thread of its own), for different URLs, their steps interleaved.  The
\* Candidate lists are kept to ConcMaxCands.
ConcUrl(p) == IF p = 1 THEN "u1" ELSE "u2"

\* The fetches of these requests fail or return an ordinary body.
ConcFetchOutcomes(u) ==
    {o \in FetchOutcomes(u) : (~o.ok /\ o.title = "") \/ o.text \in {"a", "b"}}

ConcInputs ==
    \A q \in Procs :
        /\ url[q] \in {"", ConcUrl(q)}
        /\ Len(articles[q]) <= ConcMaxCands
        /\ \A i \in 1..Len(calls[q]) :
             calls[q][i].op = "fetch" => calls[q][i].res \in ConcFetchOutcomes(calls[q][i].a1)

InitConc == InitOf([p \in Procs |-> "flask"])

NextConc ==
    \E p \in Procs :
        \/ Flask_Request(p) /\ ConcInputs'
        \/ Flask_FetchPrimary(p) /\ ConcInputs'
        \/ Flask_Sentiment(p) /\ ConcInputs'
        \/ Flask_Topics(p) /\ ConcInputs'
        \/ Flask_FindAlternatives(p) /\ ConcInputs'
        \/ Flask_AltStep(p) /\ ConcInputs'
        \/ Flask_Render(p) /\ ConcInputs'

SpecConc == InitConc /\ [][NextConc]_vars

\* The two front-ends side by side: process 1 a Flask request, process 2 a
\* Streamlit session, both for the URL u1, with the bounds of ConcInputs.
EquivInputs ==
    /\ url[1] \in {"", "u1"}
    /\ "url" \in DOMAIN ss[2] => ss[2]["url"] = "u1"
    /\ \A q \in Procs :
        /\ Len(articles[q]) <= ConcMaxCands
        /\ \A i \in 1..Len(calls[q]) :
             calls[q][i].op = "fetch" => calls[q][i].res \in ConcFetchOutcomes(calls[q][i].a1)

InitEquiv == InitOf([p \in Procs |-> IF p = 1 THEN "flask" ELSE "streamlit"])

NextEquiv ==
    \/ Flask_Request(1) /\ EquivInputs'
    \/ Flask_FetchPrimary(1) /\ EquivInputs'
    \/ Flask_Sentiment(1) /\ EquivInputs'
    \/ Flask_Topics(1) /\ EquivInputs'
    \/ Flask_FindAlternatives(1) /\ EquivInputs'
    \/ Flask_AltStep(1) /\ EquivInputs'
    \/ Flask_Render(1) /\ EquivInputs'
    \/ St_ClickAnalyze(2) /\ EquivInputs'
    \/ St_FetchPrimary(2) /\ EquivInputs'
    \/ St_ClickTryAnother(2) /\ EquivInputs'
    \/ St_Sentiment(2) /\ EquivInputs'
    \/ St_Topics(2) /\ EquivInputs'
    \/ St_FindAlternatives(2) /\ EquivInputs'
    \/ St_AltStep(2) /\ EquivInputs'
    \/ St_Finish(2) /\ EquivInputs'
    \/ St_ClickAnalyzeAnother(2) /\ EquivInputs'

SpecEquiv == InitEquiv /\ [][NextEquiv]_vars

----------------------------------------------------------------------------
(* Reading the history of an execution *)

CallsOf(p, op) == SelectSeq(calls[p], LAMBDA e : e.op = op)

\* The fetches of the alternatives: every fetch after the primary one.
AltFetches(p) == IF CallsOf(p, "fetch") = <<>> THEN <<>> ELSE Tail(CallsOf(p, "fetch"))

\* The execution ended with the results shown.
HasResults(p) == out[p]["page"] \in {"results.html", "results"}

\* The execution of p is over (and it called the processor).
Ended(p) == pc[p] \in {"done", "idle"} /\ calls[p] # <<>>

\* The URL the user submitted.
Submitted(p) == IF kind[p] = "flask" THEN url[p] ELSE ss[p]["url"]

\* What a dict holds of the Candidate it was made from.
Base(d) == [k \in {"url", "title", "source", "publishedAt"} |-> d[k]]

RECURSIVE SubSeqOf(_, _)
\* a is b with some of its elements left out.
SubSeqOf(a, b) ==
    IF a = <<>> THEN TRUE
    ELSE IF b = <<>> THEN FALSE
    ELSE IF Head(a) = Head(b) THEN SubSeqOf(Tail(a), Tail(b))
    ELSE SubSeqOf(a, Tail(b))

\* The alternatives of the execution so far; once rendered, those shown.
Final(p) ==
    IF HasResults(p) THEN out[p]["alternative_articles"]
    ELSE Resolve(articles[p], successful[p])

----------------------------------------------------------------------------
(* Claims *)

\* C1: in both orchestrators, an execution whose primary fetch returned an
\* empty raw_text ends there as a fetch failure: the primary fetch is its
\* only processor call (no sentiment, topics, find_alternatives or
\* per-alternative fetch follows it), the error is what it shows, and no
\* sentiment, topics or alternatives are held for it.
C1_PrimaryFailureShortCircuits ==
    \A p \in Procs :
        (calls[p] # <<>> /\ ~Truthy(calls[p][1].res.text)) =>
            /\ Len(calls[p]) = 1
            /\ pc[p] \in {"done", "idle"}
            /\ out[p]["page"] \in {"error.html", "fetch_error", "input"}
            /\ articles[p] = <<>>
            /\ kind[p] = "flask" => sentiment[p] = NoSentiment /\ topics[p] = <<>>
            /\ kind[p] = "streamlit" =>
                 (DOMAIN ss[p]) \cap {"original_article", "topics", "alternatives"} = {}

C1_Witness ==
    \E p \in Procs :
        /\ kind[p] = "streamlit"
        /\ pc[p] = "idle"
        /\ out[p]["page"] = "fetch_error"
        /\ Len(calls[p]) = 1
        /\ calls[p][1].op = "fetch"
        /\ calls[p][1].res.text = ""

\* C2: whatever list of Candidates find_alternative_articles returned and
\* whichever fetches failed, the alternatives are a sub-sequence of that list:
\* each is one of the Candidates, none appears twice, and they are in the
\* Candidates' order.
C2_AlternativesSubsequence ==
    \A p \in Procs :
        Len(CallsOf(p, "find")) = 1 =>
            LET cands == CallsOf(p, "find")[1].res
                final == [i \in 1..Len(Final(p)) |-> Base(Final(p)[i])]
            IN /\ SubSeqOf(final, cands)
               /\ \A i, j \in 1..Len(final) : final[i]["url"] = final[j]["url"] => i = j

C2_Witness ==
    \E p \in Procs :
        /\ HasResults(p)
        /\ Len(CallsOf(p, "find")) = 1
        /\ LET cands == CallsOf(p, "find")[1].res
               final == out[p]["alternative_articles"]
           IN /\ Len(cands) = 3
              /\ Len(final) = 2
              /\ final[1]["url"] = cands[1]["url"]
              /\ final[2]["url"] = cands[3]["url"]

\* C3: a Candidate whose fetch returns an empty raw_text is the only one
\* dropped: the Candidates are fetched one by one in list order whatever the
\* earlier fetches returned, the loop goes on while a Candidate is left, and
\* the execution ends with the results shown and every Candidate fetched,
\* never with a failure, even when every Candidate failed.
C3_FailureIsolation ==
    \A p \in Procs :
        Len(CallsOf(p, "find")) = 1 =>
            LET cands == CallsOf(p, "find")[1].res
                altf == AltFetches(p)
            IN /\ Len(altf) = idx[p] - 1
               /\ Len(altf) <= Len(cands)
               /\ \A i \in 1..Len(altf) : altf[i].a1 = cands[i]["url"]
               /\ pc[p] = "loop" => idx[p] <= Len(cands)
               /\ pc[p] \in {"done", "idle"} => HasResults(p) /\ Len(altf) = Len(cands)

C3_Witness ==
    \E p \in Procs :
        /\ HasResults(p)
        /\ Len(AltFetches(p)) >= 2
        /\ \A i \in 1..Len(AltFetches(p)) : AltFetches(p)[i].res.text = ""
        /\ out[p]["alternative_articles"] = <<>>

\* C4: a Candidate is among the alternatives shown if and only if its own
\* fetch returned a non-empty raw_text, and then its sentiment is the score of
\* that text; a Candidate whose fetch failed is not shown and its dict gets no
\* sentiment.  So the list is as long as the Candidate list less the failed
\* fetches.
C4_PromotedIffFetched ==
    \A p \in Procs :
        (HasResults(p) /\ Len(CallsOf(p, "find")) = 1) =>
            LET cands == CallsOf(p, "find")[1].res
                altf == AltFetches(p)
                final == out[p]["alternative_articles"]
                shown(i) == {j \in 1..Len(final) : final[j]["url"] = cands[i]["url"]}
            IN /\ Len(altf) = Len(cands)
               /\ \A i \in 1..Len(cands) :
                    IF Truthy(altf[i].res.text)
                    THEN /\ Cardinality(shown(i)) = 1
                         /\ \A j \in shown(i) :
                              /\ "sentiment" \in DOMAIN final[j]
                              /\ final[j]["sentiment"] = Score(altf[i].res.text)
                    ELSE /\ shown(i) = {}
                         /\ "sentiment" \notin DOMAIN articles[p][i]
               /\ Len(final) = Len(cands)
                    - Cardinality({i \in 1..Len(cands) : ~Truthy(altf[i].res.text)})

C4_Witness ==
    \E p \in Procs :
        /\ HasResults(p)
        /\ Len(AltFetches(p)) = 3
        /\ Cardinality({i \in 1..3 : AltFetches(p)[i].res.text = ""}) = 2
        /\ Len(out[p]["alternative_articles"]) = 1
        /\ out[p]["alternative_articles"][1]["sentiment"] # out[p]["sentiment"]

\* The processor calls an execution is to make: the primary fetch of url u
\* that returned text, the two analyses of that text, the search with the
\* topics tps and the text, then for each Candidate in list order its fetch
\* and, when that returned a text, the scoring of that text.
Sig(e) == <<e.op, e.a1, e.a2>>

RECURSIVE ExpectedAlt(_, _, _)
ExpectedAlt(cands, altf, i) ==
    IF i > Len(cands) THEN <<>>
    ELSE <<(<<"fetch", cands[i]["url"], <<>>>>)>>
         \o (IF Truthy(altf[i].res.text)
             THEN <<(<<"sentiment", altf[i].res.text, <<>>>>)>>
             ELSE <<>>)
         \o ExpectedAlt(cands, altf, i + 1)

Expected(u, text, tps, cands, altf) ==
    <<(<<"fetch", u, <<>>>>), (<<"sentiment", text, <<>>>>), (<<"topics", text, <<>>>>),
      (<<"find", text, tps>>)>>
    \o ExpectedAlt(cands, altf, 1)

\* C5: an execution that ends with the results shown has called, in this
\* order and nothing else: the primary fetch, the scoring of the primary text,
\* the topic extraction, find_alternative_articles with the topics and the
\* primary raw_text, then per Candidate in list order its fetch followed, when
\* the fetch returned a text, by the scoring of that text; so each of the
\* first four is called once and each Candidate is fetched once.
C5_CallOrder ==
    \A p \in Procs :
        HasResults(p) =>
            /\ Len(calls[p]) >= 4
            /\ Len(CallsOf(p, "find")) = 1
            /\ LET cands == CallsOf(p, "find")[1].res
                   altf == AltFetches(p)
               IN /\ Len(altf) = Len(cands)
                  /\ [i \in 1..Len(calls[p]) |-> Sig(calls[p][i])]
                       = Expected(Submitted(p), calls[p][1].res.text, calls[p][3].res,
                                  cands, altf)

C5_Witness ==
    \E p \in Procs :
        /\ kind[p] = "flask"
        /\ HasResults(p)
        /\ Len(calls[p]) = 9
        /\ Len(AltFetches(p)) = 3
        /\ AltFetches(p)[2].res.text = ""

\* C6: a failed primary fetch is not retried: once the primary fetch of the
\* submitted URL failed, that URL is not fetched again before a new
\* submission, and the results of that submission are never shown.
C6_NoRetryOfFailedFetch ==
    \A p \in Procs :
        /\ failed[p] => nfetch[p] <= 1
        /\ ~(failed[p] /\ HasResults(p))

\* C7: a fetch failure is decided from the failure of the fetch, not from an
\* empty text: the request is failed only when the primary fetch itself
\* failed, and a Candidate whose fetch succeeded is not dropped.
C7_FailureFromExplicitIndicator ==
    \A p \in Procs :
        /\ (Ended(p) /\ out[p]["page"] \in {"error.html", "fetch_error"}) =>
               ~calls[p][1].res.ok
        /\ (HasResults(p) /\ Len(CallsOf(p, "find")) = 1) =>
               \A i \in 1..Len(AltFetches(p)) :
                   AltFetches(p)[i].res.ok =>
                       \E j \in 1..Len(out[p]["alternative_articles"]) :
                           out[p]["alternative_articles"][j]["url"] = AltFetches(p)[i].a1

\* C8: analyze_sentiment_from_text is never called with an empty text,
\* neither for the primary article nor for an alternative, whatever the
\* fetches return.
C8_NeverScoresEmptyText ==
    \A p \in Procs :
        \A i \in 1..Len(calls[p]) :
            calls[p][i].op = "sentiment" => calls[p][i].a1 # ""

C8_Witness ==
    \E p \in Procs :
        /\ HasResults(p)
        /\ Len(CallsOf(p, "sentiment")) >= 2
        /\ \E i \in 1..Len(AltFetches(p)) : AltFetches(p)[i].res.text = ""

C10_RaiseDropsOnlyThatCandidate ==
    \A p \in Procs :
        (\E i \in 1..Len(calls[p]) :
            \/ calls[p][i].op = "fetch" /\ calls[p][i].res = Raised
            \/ calls[p][i].op = "sentiment" /\ calls[p][i].res = RaisedScore) =>
            /\ out[p]["page"] # "exception"
            /\ pc[p] \in {"done", "idle"} =>
                 HasResults(p) /\ Len(AltFetches(p)) = Len(CallsOf(p, "find")[1].res)

----------------------------------------------------------------------------
(* Requests in flight together *)

RECURSIVE EnrichedFrom(_, _)
\* The alternatives a request running alone renders, from the responses cs it
\* got after find_alternative_articles returned cands: each Candidate whose
\* fetch returned a text, with the score returned for that text.
EnrichedFrom(cands, cs) ==
    IF cands = <<>> \/ cs = <<>> THEN <<>>
    ELSE IF Truthy(cs[1].res.text)
         THEN <<Put(cands[1], "sentiment", cs[2].res)>>
              \o EnrichedFrom(Tail(cands), SubSeq(cs, 3, Len(cs)))
         ELSE EnrichedFrom(Tail(cands), Tail(cs))

\* What analyze() renders when it runs alone and gets the responses of cs.
AloneOutcome(cs) ==
    IF ~Truthy(cs[1].res.text) THEN [page |-> "error.html"]
    ELSE [page |-> "results.html",
          article_title |-> cs[1].res.title,
          sentiment |-> cs[2].res,
          topics |-> cs[3].res,
          alternative_articles |-> EnrichedFrom(cs[4].res, SubSeq(cs, 5, Len(cs)))]

\* C11: with two requests for different URLs in flight and their steps
\* interleaved, what each request renders is what it renders running alone
\* on the responses it got itself (failure, or title, sentiment, topics and
\* the ordered alternatives); its calls are for its own URL and text, and a
\* request that has not returned has rendered nothing.
C11_RequestsIsolated ==
    \A p \in Procs :
        /\ pc[p] = "done" =>
             /\ out[p] = AloneOutcome(calls[p])
             /\ calls[p][1].a1 = ConcUrl(p)
        /\ pc[p] # "done" => out[p] = NoPage

C11_Witness ==
    /\ pc[1] = "done" /\ pc[2] = "done"
    /\ HasResults(1) /\ HasResults(2)
    /\ out[1]["sentiment"] # out[2]["sentiment"]
    /\ Len(out[1]["alternative_articles"]) = 1
    /\ Len(out[2]["alternative_articles"]) = 1
    /\ out[1]["alternative_articles"][1]["url"] # out[2]["alternative_articles"][1]["url"]
    /\ out[1]["alternative_articles"][1]["sentiment"]
         # out[2]["alternative_articles"][1]["sentiment"]

----------------------------------------------------------------------------
(* The Streamlit session *)

RECURSIVE StEnrichedFrom(_, _)
\* The alternatives a run of the 'processing' stage stores, from the
\* responses cs it got after find_alternative_articles returned cands.
StEnrichedFrom(cands, cs) ==
    IF cands = <<>> \/ cs = <<>> THEN <<>>
    ELSE IF Truthy(cs[1].res.text)
         THEN <<Put(Put(cands[1], "sentiment", cs[2].res),
                    "description", Description(cs[1].res.text))>>
              \o StEnrichedFrom(Tail(cands), SubSeq(cs, 3, Len(cs)))
         ELSE StEnrichedFrom(Tail(cands), Tail(cs))

\* C12: whenever the stage of a session is 'results', its session state
\* holds original_article (title and sentiment), topics and alternatives, all
\* of them what the last run of the 'processing' stage computed from its own
\* responses, a run that fetched the stored url with a non-empty text and ran
\* to its end; and the results screen shows exactly these.
C12_ResultsSessionComplete ==
    \A p \in Procs :
        (kind[p] = "streamlit" /\ ss[p]["stage"] = "results") =>
            /\ {"url", "original_article", "topics", "alternatives"} \subseteq DOMAIN ss[p]
            /\ pc[p] = "idle"
            /\ Len(calls[p]) >= 4
            /\ calls[p][1].a1 = ss[p]["url"]
            /\ Truthy(calls[p][1].res.text)
            /\ DOMAIN ss[p]["original_article"] = {"title", "sentiment"}
            /\ ss[p]["original_article"]["title"] = calls[p][1].res.title
            /\ ss[p]["original_article"]["sentiment"] = calls[p][2].res
            /\ ss[p]["topics"] = calls[p][3].res
            /\ ss[p]["alternatives"]
                 = StEnrichedFrom(calls[p][4].res, SubSeq(calls[p], 5, Len(calls[p])))
            /\ out[p] = ResultsPage(ss[p])

C12_Witness ==
    \E p \in Procs :
        /\ kind[p] = "streamlit"
        /\ ss[p]["stage"] = "results"
        /\ failed[p]
        /\ Len(ss[p]["alternatives"]) = 2
        /\ Len(calls[p]) = 9
        /\ "description" \in DOMAIN ss[p]["alternatives"][1]

\* The stage of session p.
Stage(p) == ss[p]["stage"]

\* The steps that change the stage of session p.
StageStep(p) ==
    \/ Stage(p)' = Stage(p)
    \/ /\ Stage(p) = "input" /\ Stage(p)' = "processing"
       /\ pc[p] = "idle"
       /\ "url" \in DOMAIN ss'[p] /\ Truthy(ss'[p]["url"])
    \/ /\ Stage(p) = "processing" /\ Stage(p)' = "results"
       /\ pc[p] = "finish"
       /\ Len(calls[p]) >= 4 /\ Truthy(calls[p][1].res.text)
       /\ Len(AltFetches(p)) = Len(articles[p])
    \/ /\ Stage(p) \in {"processing", "results"} /\ Stage(p)' = "input"
       /\ ss'[p] = start_new_analysis(ss[p])

\* C13: the stage of a session starts at 'input' and changes only from
\* 'input' to 'processing' (with a non-empty url stored), from 'processing'
\* to 'results' (at the end of a run whose primary fetch returned a text and
\* that fetched every Candidate), and from 'processing' or 'results' to
\* 'input' by start_new_analysis.  So the stage is 'processing' only with a
\* non-empty url stored, and is never 'error'.
C13_StageTransitions ==
    /\ \A p \in Procs : kind[p] = "streamlit" => Stage(p) = "input"
    /\ [](\A p \in Procs : kind[p] = "streamlit" =>
            /\ Stage(p) \in {"input", "processing", "results"}
            /\ Stage(p) = "processing" => "url" \in DOMAIN ss[p] /\ Truthy(ss[p]["url"])
            /\ out[p]["page"] = "input_warning" => Stage(p) = "input")
    /\ [][\A p \in Procs : kind[p] = "streamlit" => StageStep(p)]_vars

C13_Witness ==
    \E p \in Procs :
        /\ kind[p] = "streamlit"
        /\ Stage(p) = "input"
        /\ out[p]["page"] = "input"
        /\ failed[p]
        /\ nfetch[p] = 2

\* C14: whenever the stage is 'input', none of the keys url,
\* original_article, topics, alternatives, error is in the session state; and
\* a step that brings the stage back to 'input' (start_new_analysis) removes
\* these keys, sets the stage and leaves every other key as it was.
C14_NewAnalysisDiscards ==
    /\ [](\A p \in Procs : (kind[p] = "streamlit" /\ Stage(p) = "input") =>
            (DOMAIN ss[p]) \cap {"url", "original_article", "topics", "alternatives", "error"} = {})
    /\ [][\A p \in Procs :
            (kind[p] = "streamlit" /\ Stage(p) # "input" /\ Stage(p)' = "input") =>
                /\ DOMAIN ss'[p] = (DOMAIN ss[p])
                     \ {"url", "original_article", "topics", "alternatives", "error"}
                /\ \A k \in (DOMAIN ss'[p]) \ {"stage"} : ss'[p][k] = ss[p][k]
                /\ out'[p] = [page |-> "input"]]_vars

C14_Witness ==
    \E p \in Procs :
        /\ kind[p] = "streamlit"
        /\ Stage(p) = "input"
        /\ DOMAIN ss[p] = {"stage"}
        /\ out[p]["page"] = "input"
        /\ ~failed[p]
        /\ nfetch[p] = 1

----------------------------------------------------------------------------
(* The two front-ends on one pipeline run *)

RECURSIVE SameResponses(_, _)
\* The executions with histories a and b got the same responses from the
\* same operations, call by call.
SameResponses(a, b) ==
    IF Len(a) # Len(b) THEN FALSE
    ELSE IF a = <<>> THEN TRUE
    ELSE /\ a[1].op = b[1].op
         /\ a[1].res = b[1].res
         /\ SameResponses(Tail(a), Tail(b))

\* The run of the 'processing' stage of session p ended with the fetch error.
StFetchFailure(p) ==
    /\ out[p]["page"] \in {"fetch_error", "input"}
    /\ Len(calls[p]) = 1

\* The alternatives of a Streamlit session without their description.
WithoutDescription(alts) == [i \in 1..Len(alts) |-> Del(alts[i], {"description"})]

\* C15: when the Flask request and the run of the Streamlit 'processing'
\* stage have both ended and got the same responses from the processor, they
\* made the same calls and have the same outcome: both the fetch failure, or
\* both the results with the same title, sentiment and topics and the same
\* alternatives in the same order with the same sentiments; the Streamlit
\* alternatives have a description in addition and nothing else.
C15_FrontEndsEquivalent ==
    (/\ pc[1] = "done" /\ pc[2] = "idle"
     /\ calls[1] # <<>> /\ calls[2] # <<>>
     /\ SameResponses(calls[1], calls[2])) =>
        /\ [i \in 1..Len(calls[1]) |-> Sig(calls[1][i])]
             = [i \in 1..Len(calls[2]) |-> Sig(calls[2][i])]
        /\ out[1]["page"] \in {"error.html", "results.html"}
        /\ out[1]["page"] = "error.html" <=> StFetchFailure(2)
        /\ out[1]["page"] = "results.html" <=> out[2]["page"] = "results"
        /\ out[1]["page"] = "results.html" =>
             /\ out[1]["article_title"] = out[2]["article_title"]
             /\ out[1]["sentiment"] = out[2]["sentiment"]
             /\ out[1]["topics"] = out[2]["topics"]
             /\ out[1]["alternative_articles"] = WithoutDescription(out[2]["alternative_articles"])
             /\ \A i \in 1..Len(out[2]["alternative_articles"]) :
                  DOMAIN out[2]["alternative_articles"][i]
                    = (DOMAIN out[1]["alternative_articles"][i]) \cup {"description"}

C15_Witness ==
    /\ pc[1] = "done" /\ pc[2] = "idle"
    /\ calls[1] # <<>>
    /\ SameResponses(calls[1], calls[2])
    /\ out[1]["page"] = "results.html"
    /\ out[2]["page"] = "results"
    /\ Len(out[1]["alternative_articles"]) = 1
    /\ Len(AltFetches(1)) = 2
    /\ AltFetches(1)[1].res.text = ""

====
